---- MODULE Spec2Model ----
(***************************************************************************)
(* Starferry: the plugin lifecycle of the host application                 *)
(* (src/starferry/main.py) and the TradingView plugin with its connection  *)
(* monitor (src/plugins/tradingview_mpc/__init__.py).                      *)
(*                                                                         *)
(* asyncio runs one task at a time; a task gives up control only at an     *)
(* await. Every action below is the code between two suspension points of  *)
(* one task.                                                               *)
(***************************************************************************)
EXTENDS Naturals, Sequences, FiniteSets

\* ------------------------------------------------------------------ bounds

\* Number of entries pkgutil.iter_modules yields from the plugins directory.
NumCandidates == 3

\* Number of other candidates in a plugins directory that holds
\* tradingview_mpc.
NumPeers == 1

\* Cap on the counter of consecutive failed connect attempts.
MaxFails == 2

\* Number of calls of the plugin's setup made by a caller that drives the
\* plugin's entry points itself.
MaxSetups == 1

\* Number of calls of the plugin's shutdown made by such a caller.
MaxShutdowns == 2

\* ------------------------------------------------------------------ state

VARIABLES
    dirExists,      \* os.path.exists(plugins_dir)
    cands,          \* what iter_modules yields, in order: the candidates
    hostPc,         \* position of the lifespan coroutine
    idx,            \* position of the for loop the lifespan is in
    plugins,        \* PluginManager.plugins, in insertion order (names)
    plugin_routers, \* PluginManager.plugin_routers (names)
    routes,         \* prefixes mounted on the app by include_router (names)
    log,            \* what the manager has logged
    setupCalls,     \* per candidate: number of calls of its setup
    shutdownCalls,  \* per candidate: number of calls of its shutdown
    setupResult,    \* per candidate: how its setup ended
    shutdownResult, \* per candidate: how its shutdown ended
    cleanup_task,   \* lifespan's cleanup_ip_tracker task
    tv_client,      \* the plugin's global: "None" or "client"
    connected,      \* TradingViewClient.connected of the one client object
    closed,         \* the client's httpx.AsyncClient has been closed
    tasks,          \* the connection_monitor tasks created by setup
    upstream,       \* whether the TradingView API answers /status with 200
    req,            \* the request to the plugin's router: "idle", "awaiting"
                    \* its upstream call, or how the latest one was answered
    failedAttempts, \* consecutive failed connect attempts (capped)
    upSinceIter     \* the monitor's latest iteration began with the
                    \* upstream reachable, and it has been reachable since

mgrVars == <<dirExists, cands, hostPc, idx, plugins, plugin_routers, routes,
             log, setupCalls, shutdownCalls, setupResult, shutdownResult,
             cleanup_task>>
tvVars == <<tv_client, connected, closed, tasks, upstream, req,
            failedAttempts, upSinceIter>>
vars == <<mgrVars, tvVars>>

\* ------------------------------------------------------------- candidates

\* A candidate is an entry of the plugins directory:
\*   "module"     a plain module (ispkg is false)
\*   "importfail" a package whose import raises
\*   "nosetup"    a package without a setup function
\*   "plain"      a package with setup, any plugin
\*   "tv"         the tradingview_mpc package
Candidates ==
    { [kind |-> "module", hasShutdown |-> FALSE],
      [kind |-> "importfail", hasShutdown |-> FALSE],
      [kind |-> "nosetup", hasShutdown |-> FALSE],
      [kind |-> "nosetup", hasShutdown |-> TRUE],
      [kind |-> "plain", hasShutdown |-> FALSE],
      [kind |-> "plain", hasShutdown |-> TRUE],
      [kind |-> "tv", hasShutdown |-> TRUE] }

\* iter_modules yields each name once: the candidate's name is its position.
Names == DOMAIN cands

HasSetup(n) == cands[n].kind \in {"plain", "tv"}

\* The plugins directories considered: NumCandidates candidates other than
\* tradingview_mpc, or tradingview_mpc (one package: it occurs once) at any
\* position among NumPeers other candidates.
Directories ==
    [1..NumCandidates -> {c \in Candidates : c.kind # "tv"}]
        \cup { d \in [1..(NumPeers + 1) -> Candidates] :
                 Cardinality({n \in DOMAIN d : d[n].kind = "tv"}) = 1 }

\* What a plain plugin's setup may do: raise, return a router, return None.
SetupResults == {"raise", "router", "none"}

\* What a plain plugin's shutdown may do.
ShutdownResults == {"ok", "raise"}

Entry(ev, n) == [ev |-> ev, name |-> n]
Log(ev, n) == Append(log, Entry(ev, n))

\* ----------------------------------------------------- PluginManager code

\* load_plugins, lines 30-31: os.makedirs(self.plugins_dir) when the
\* directory does not exist; whether it exists afterwards.
MakeDirs_skipped(exists) == exists
MakeDirs(exists) == TRUE

\* load_plugins, line 43: `if hasattr(plugin_module, 'setup'):` has no else
\* branch; what the manager logs for a package without setup.
NoSetupLog_as_failure(n) == <<Entry("load_failed", n)>>
NoSetupLog(n) == <<>>

\* load_plugins, line 45: `await plugin_module.setup(app)` keeps the loop
\* at candidate i until its setup has ended. A setup that was started but
\* not awaited would leave the loop free to go on to the next candidate.
AwaitSetup_not_awaited(i) == [pc |-> "loading", next |-> i + 1]
AwaitSetup(i) == [pc |-> "in_setup", next |-> i]

\* load_plugins, line 46: `if plugin_router:` mounts what setup returned.
Mounts_whatever_returned(result) == result # "raise"
Mounts(result) == result = "router"

\* load_plugins, line 51: reached unless setup (or the mount) raised.
Registers_inside_if(result) == result = "router"
Registers(result) == result # "raise"

\* load_plugins, lines 53-54: `except Exception` keeps the for loop going.
\* Without it the exception leaves load_plugins and lifespan.
AfterLoadError_propagates(result) ==
    IF result = "raise" THEN "failed" ELSE "loading"
AfterLoadError(result) == "loading"

\* shutdown_plugins, lines 60-64: try/except around each plugin's shutdown.
AfterShutdownCall(result) == "shutting"

\* shutdown_plugins, line 58: the loop runs over every entry of self.plugins.
ShutdownOrder_first_only(ps) == IF ps = <<>> THEN <<>> ELSE <<Head(ps)>>
ShutdownOrder(ps) == ps

\* ------------------------------------------------------ TradingView code

\* The routes of the plugin's router besides /status (lines 382-587).
OperationalRoutes ==
    { "symbols", "chart", "simpleChart", "replayMode", "login", "search",
      "drawings", "fromToData", "builtInIndicator", "customTimeframe",
      "graphicIndicator", "multipleSyncFetch", "customChartType",
      "fakeReplayMode", "privateIndicators", "pinePermission",
      "errorHandling" }

\* How an upstream call that is in flight may end: answered with 200,
\* answered with another status, or an exception from httpx. A call in
\* flight when the httpx client is closed may still end either way.
AttemptResults ==
    (IF upstream = "up" THEN {"ok"} ELSE {"raise", "non200"})
        \cup (IF closed THEN {"raise"} ELSE {})

\* TradingViewClient.connect (lines 27-37): the field connected afterwards,
\* the value it returns, and whether it raised into its caller.
connect_uncaught(conn, r) ==
    [connected |-> conn \/ r = "ok", ret |-> r = "ok", raised |-> r = "raise"]
connect(conn, r) ==
    [connected |-> conn \/ r = "ok", ret |-> r = "ok", raised |-> FALSE]

\* A request method such as TradingViewClient.get_symbols (lines 44-53):
\* the body it returns and the field connected afterwards.
RequestMethod(conn, r) ==
    [body |-> IF r = "ok" THEN "result" ELSE "error", connected |-> conn]

\* The last statements of the handler of an operational route (lines
\* 388-389 and the sixteen like them): it returns what the request method
\* returned. The global tv_client was read before the await, not after:
\* reading it again would meet None once shutdown has run.
HandlerReturn_rereads(tvc, body) == IF tvc = "None" THEN "exception" ELSE body
HandlerReturn(tvc, body) == body

\* The first statement of the handler of an operational route (lines
\* 385, 394, 409, 422, 436, 448, 460, 469, 483, 497, 509, 523, 535, 548,
\* 561, 570, 583): whether it raises HTTPException(503).
Rejects_connected_only(route, tvc, conn) == ~conn
Rejects_but_one(route, tvc, conn) ==
    route # "privateIndicators" /\ (tvc = "None" \/ ~conn)
Rejects(route, tvc, conn) == tvc = "None" \/ ~conn

\* connection_monitor, line 605: what one iteration does first.
\* tv_client is the module global: None after shutdown, and then
\* `tv_client.connected` raises AttributeError.
MonitorCheck_always_sleeps(tvc, conn) ==
    IF tvc = "None" THEN "fail" ELSE "sleep"
MonitorCheck(tvc, conn) ==
    IF tvc = "None" THEN "fail" ELSE IF ~conn THEN "attempt" ELSE "sleep"

\* setup, line 610: asyncio.create_task(connection_monitor()), once.
CreateMonitor_twice(ts) == Append(Append(ts, "start"), "start")
CreateMonitor(ts) == Append(ts, "start")

\* get_status, lines 378-380: `if tv_client and tv_client.connected`.
StatusReport(tvc, conn) ==
    IF tvc = "client" /\ conn THEN "connected" ELSE "disconnected"

\* shutdown, line 617: `if tv_client:` guards the call of disconnect. Without
\* the guard, `tv_client.disconnect()` on None raises AttributeError.
ShutdownStart_unguarded(tvc) ==
    IF tvc = "client" THEN "disconnect" ELSE "raise"
ShutdownStart(tvc) ==
    IF tvc = "client" THEN "disconnect" ELSE "return"

\* lifespan, lines 73-78: the application serves requests from the yield
\* on, which comes after `await plugin_manager.load_plugins(app)`.
ServingPcs_while_loading ==
    {"loading", "in_setup", "serving", "shutting", "in_shutdown", "cleanup",
     "done"}
ServingPcs == {"serving", "shutting", "in_shutdown", "cleanup", "done"}

\* lifespan, lines 78-81: between the yield and the resumption the event
\* loop has run, so every task that create_task scheduled before the yield
\* has taken its first step.
TasksStarted_unscheduled(ts) == TRUE
TasksStarted(ts) == \A t \in DOMAIN ts : ts[t] # "start"

Min(a, b) == IF a < b THEN a ELSE b

\* Consecutive connect calls of the monitor that returned False.
CountFail(c) == IF c.ret THEN 0 ELSE Min(failedAttempts + 1, MaxFails)

\* ------------------------------------------------------------------- Init

Init ==
    /\ dirExists \in BOOLEAN
    /\ cands \in (IF dirExists THEN Directories ELSE {<<>>})
    /\ hostPc = "start"
    /\ idx = 1
    /\ plugins = <<>>
    /\ plugin_routers = {}
    /\ routes = {}
    /\ log = <<>>
    /\ setupCalls = [n \in DOMAIN cands |-> 0]
    /\ shutdownCalls = [n \in DOMAIN cands |-> 0]
    /\ setupResult = [n \in DOMAIN cands |-> "uncalled"]
    /\ shutdownResult = [n \in DOMAIN cands |-> "uncalled"]
    /\ cleanup_task = "absent"
    /\ tv_client = "None"
    /\ connected = FALSE
    /\ closed = FALSE
    /\ tasks = <<>>
    /\ upstream \in {"up", "down"}
    /\ req = "idle"
    /\ failedAttempts = 0
    /\ upSinceIter = FALSE

\* ------------------------------------------------- lifespan: load_plugins

\* lifespan lines 69-73 and load_plugins lines 29-33: a missing plugins
\* directory is created and load_plugins returns; lifespan then starts its
\* cleanup task and yields (lines 76-78).
LifespanStart ==
    /\ hostPc = "start"
    /\ IF ~dirExists
          THEN /\ dirExists' = MakeDirs(dirExists)
               /\ log' = Log("created_dir", 0)
               /\ cleanup_task' = "running"
               /\ hostPc' = "serving"
          ELSE /\ hostPc' = "loading"
               /\ UNCHANGED <<dirExists, log, cleanup_task>>
    /\ UNCHANGED <<cands, idx, plugins, plugin_routers, routes, setupCalls,
                   shutdownCalls, setupResult, shutdownResult, tvVars>>

Loading == hostPc = "loading" /\ idx \in Names

\* line 37: `if ispkg:` is false.
SkipModule ==
    /\ Loading
    /\ cands[idx].kind = "module"
    /\ idx' = idx + 1
    /\ UNCHANGED <<dirExists, cands, hostPc, plugins, plugin_routers, routes,
                   log, setupCalls, shutdownCalls, setupResult,
                   shutdownResult, cleanup_task, tvVars>>

\* line 40 raises; lines 53-54 log it.
ImportFails ==
    /\ Loading
    /\ cands[idx].kind = "importfail"
    /\ log' = Log("load_failed", idx)
    /\ hostPc' = AfterLoadError("raise")
    /\ idx' = idx + 1
    /\ UNCHANGED <<dirExists, cands, plugins, plugin_routers, routes,
                   setupCalls, shutdownCalls, setupResult, shutdownResult,
                   cleanup_task, tvVars>>

\* line 43: `hasattr(plugin_module, 'setup')` is false.
SkipNoSetup ==
    /\ Loading
    /\ cands[idx].kind = "nosetup"
    /\ log' = log \o NoSetupLog(idx)
    /\ idx' = idx + 1
    /\ UNCHANGED <<dirExists, cands, hostPc, plugins, plugin_routers, routes,
                   setupCalls, shutdownCalls, setupResult,
                   shutdownResult, cleanup_task, tvVars>>

\* line 45: setup of a plain plugin is called and awaited.
BeginSetupPlain ==
    /\ Loading
    /\ cands[idx].kind = "plain"
    /\ setupCalls' = [setupCalls EXCEPT ![idx] = @ + 1]
    /\ hostPc' = AwaitSetup(idx).pc
    /\ idx' = AwaitSetup(idx).next
    /\ UNCHANGED <<dirExists, cands, plugins, plugin_routers, routes,
                   log, shutdownCalls, setupResult, shutdownResult,
                   cleanup_task, tvVars>>

\* lines 45-54 once setup of candidate idx has ended with `result`, having
\* logged `said` itself.
Loaded(result, said) ==
    /\ setupResult' = [setupResult EXCEPT ![idx] = result]
    /\ routes' = IF Mounts(result) THEN routes \cup {idx} ELSE routes
    /\ plugin_routers' =
          IF Mounts(result) THEN plugin_routers \cup {idx} ELSE plugin_routers
    /\ plugins' = IF Registers(result) THEN Append(plugins, idx) ELSE plugins
    /\ log' = IF result = "raise"
                THEN log \o said \o <<Entry("load_failed", idx)>>
              ELSE IF Registers(result)
                THEN log \o said \o <<Entry("loaded", idx)>>
              ELSE log \o said
    /\ hostPc' = AfterLoadError(result)
    /\ idx' = idx + 1
    /\ UNCHANGED <<dirExists, cands, setupCalls, shutdownCalls,
                   shutdownResult, cleanup_task>>

FinishSetupPlain ==
    /\ hostPc = "in_setup"
    /\ cands[idx].kind = "plain"
    /\ \E result \in SetupResults : Loaded(result, <<>>)
    /\ UNCHANGED tvVars

\* line 45 for tradingview_mpc: setup lines 589-598, up to the await of
\* connect's GET /status.
BeginSetupTV ==
    /\ Loading
    /\ cands[idx].kind = "tv"
    /\ setupCalls' = [setupCalls EXCEPT ![idx] = @ + 1]
    /\ hostPc' = AwaitSetup(idx).pc
    /\ idx' = AwaitSetup(idx).next
    /\ tv_client' = "client"
    /\ connected' = FALSE
    /\ closed' = FALSE
    /\ UNCHANGED <<dirExists, cands, plugins, plugin_routers, routes,
                   log, shutdownCalls, setupResult, shutdownResult,
                   cleanup_task, tasks, upstream, req,
                   failedAttempts, upSinceIter>>

\* setup lines 598-612: connect ends, a failed connect is logged as a
\* warning, the monitor task is created and the router returned; then
\* load_plugins lines 46-52.
FinishSetupTV ==
    /\ hostPc = "in_setup"
    /\ cands[idx].kind = "tv"
    /\ \E r \in AttemptResults :
          LET c == connect(connected, r)
              said == IF c.ret THEN <<>> ELSE <<Entry("not_connected", idx)>>
          IN  /\ connected' = c.connected
              /\ IF c.raised
                    THEN tasks' = tasks /\ Loaded("raise", <<>>)
                    ELSE tasks' = CreateMonitor(tasks)
                         /\ Loaded("router", said)
    /\ UNCHANGED <<tv_client, closed, upstream, req, failedAttempts,
                   upSinceIter>>

\* the for loop of load_plugins is exhausted; lifespan lines 76-78.
LoadDone ==
    /\ hostPc = "loading"
    /\ idx \notin Names
    /\ cleanup_task' = "running"
    /\ hostPc' = "serving"
    /\ UNCHANGED <<dirExists, cands, idx, plugins, plugin_routers, routes,
                   log, setupCalls, shutdownCalls, setupResult,
                   shutdownResult, tvVars>>

\* --------------------------------------------- lifespan: shutdown_plugins

\* lifespan line 81: the generator resumes after its yield. The event loop
\* has run in between, and with it the first step of every task that
\* create_task had scheduled.
BeginTeardown ==
    /\ hostPc = "serving"
    /\ TasksStarted(tasks)
    /\ hostPc' = "shutting"
    /\ idx' = 1
    /\ UNCHANGED <<dirExists, cands, plugins, plugin_routers, routes, log,
                   setupCalls, shutdownCalls, setupResult, shutdownResult,
                   cleanup_task, tvVars>>

Shutting ==
    hostPc = "shutting" /\ idx \in DOMAIN ShutdownOrder(plugins)

\* The plugin the shutdown loop is at.
Current == ShutdownOrder(plugins)[idx]

\* line 59: `hasattr(plugin, 'shutdown')` is false.
SkipNoShutdown ==
    /\ Shutting
    /\ ~cands[Current].hasShutdown
    /\ idx' = idx + 1
    /\ UNCHANGED <<dirExists, cands, hostPc, plugins, plugin_routers, routes,
                   log, setupCalls, shutdownCalls, setupResult,
                   shutdownResult, cleanup_task, tvVars>>

\* line 61: shutdown of a plain plugin is called and awaited.
BeginShutdownPlain ==
    /\ Shutting
    /\ cands[Current].hasShutdown
    /\ cands[Current].kind = "plain"
    /\ shutdownCalls' = [shutdownCalls EXCEPT ![Current] = @ + 1]
    /\ hostPc' = "in_shutdown"
    /\ UNCHANGED <<dirExists, cands, idx, plugins, plugin_routers, routes,
                   log, setupCalls, setupResult, shutdownResult,
                   cleanup_task, tvVars>>

\* lines 61-64 once shutdown of the current plugin has ended with `result`.
ShutDown(result) ==
    /\ shutdownResult' = [shutdownResult EXCEPT ![Current] = result]
    /\ log' = IF result = "raise" THEN Log("shutdown_error", Current)
              ELSE Log("shutdown", Current)
    /\ hostPc' = AfterShutdownCall(result)
    /\ idx' = idx + 1
    /\ UNCHANGED <<dirExists, cands, plugins, plugin_routers, routes,
                   setupCalls, setupResult, cleanup_task>>

FinishShutdownPlain ==
    /\ hostPc = "in_shutdown"
    /\ cands[Current].kind = "plain"
    /\ \E result \in ShutdownResults : ShutDown(result)
    /\ UNCHANGED <<shutdownCalls, tvVars>>

\* line 61 for tradingview_mpc: shutdown lines 614-618, up to the await of
\* aclose() in disconnect (line 40). With tv_client None the call returns
\* at once (lines 617, 620).
BeginShutdownTV ==
    /\ Shutting
    /\ cands[Current].kind = "tv"
    /\ shutdownCalls' = [shutdownCalls EXCEPT ![Current] = @ + 1]
    /\ IF ShutdownStart(tv_client) = "disconnect"
          THEN /\ closed' = TRUE
               /\ hostPc' = "in_shutdown"
               /\ UNCHANGED <<dirExists, cands, idx, plugins, plugin_routers,
                              routes, log, setupCalls, setupResult,
                              shutdownResult, cleanup_task>>
          ELSE /\ closed' = closed
               /\ ShutDown(IF ShutdownStart(tv_client) = "raise"
                             THEN "raise" ELSE "ok")
    /\ UNCHANGED <<tv_client, connected, tasks, upstream, req,
                   failedAttempts, upSinceIter>>

\* disconnect lines 41-42 and shutdown lines 619-620; then lines 62-64.
FinishShutdownTV ==
    /\ hostPc = "in_shutdown"
    /\ cands[Current].kind = "tv"
    /\ connected' = FALSE
    /\ tv_client' = "None"
    /\ ShutDown("ok")
    /\ UNCHANGED <<shutdownCalls, closed, tasks, upstream, req,
                   failedAttempts, upSinceIter>>

\* shutdown_plugins has returned; lifespan lines 84-86: cancel the cleanup
\* task and await it.
TeardownCancel ==
    /\ hostPc = "shutting"
    /\ idx \notin DOMAIN ShutdownOrder(plugins)
    /\ cleanup_task' = "cancelling"
    /\ hostPc' = "cleanup"
    /\ UNCHANGED <<dirExists, cands, idx, plugins, plugin_routers, routes,
                   log, setupCalls, shutdownCalls, setupResult,
                   shutdownResult, tvVars>>

\* lifespan lines 86-88: the cancelled cleanup task has ended.
TeardownDone ==
    /\ hostPc = "cleanup"
    /\ cleanup_task' = "cancelled"
    /\ hostPc' = "done"
    /\ UNCHANGED <<dirExists, cands, idx, plugins, plugin_routers, routes,
                   log, setupCalls, shutdownCalls, setupResult,
                   shutdownResult, tvVars>>

\* --------------------------------------------------- connection_monitor

\* One iteration of connection_monitor up to its next await (lines
\* 604-607): the first one of a new task, or the one after a sleep. A GET
\* on a closed httpx client raises at once, which connect catches.
MonitorIterate(t) ==
    /\ tasks[t] \in {"start", "sleeping"}
    /\ upSinceIter' = (upstream = "up")
    /\ LET check == MonitorCheck(tv_client, connected) IN
          IF check = "fail"
            THEN /\ tasks' = [tasks EXCEPT ![t] = "failed"]
                 /\ UNCHANGED <<connected, failedAttempts>>
          ELSE IF check = "sleep"
            THEN /\ tasks' = [tasks EXCEPT ![t] = "sleeping"]
                 /\ UNCHANGED <<connected, failedAttempts>>
          ELSE IF closed
            THEN /\ tasks' = [tasks EXCEPT ![t] =
                        IF connect(connected, "raise").raised
                          THEN "failed" ELSE "sleeping"]
                 /\ connected' = connect(connected, "raise").connected
                 /\ failedAttempts' = CountFail(connect(connected, "raise"))
          ELSE /\ tasks' = [tasks EXCEPT ![t] = "connecting"]
               /\ UNCHANGED <<connected, failedAttempts>>
    /\ UNCHANGED <<mgrVars, tv_client, closed, upstream, req>>

\* The GET /status of the monitor's connect ends (lines 29-37), and the
\* monitor goes to sleep (line 607).
MonitorConnectDone(t) ==
    /\ tasks[t] = "connecting"
    /\ \E r \in AttemptResults :
          /\ connected' = connect(connected, r).connected
          /\ tasks' = [tasks EXCEPT ![t] =
                IF connect(connected, r).raised THEN "failed" ELSE "sleeping"]
          /\ failedAttempts' = CountFail(connect(connected, r))
    /\ UNCHANGED <<mgrVars, tv_client, closed, upstream, req, upSinceIter>>

\* The TradingView API goes down or comes back.
UpstreamChanges ==
    /\ upstream' = IF upstream = "up" THEN "down" ELSE "up"
    /\ upSinceIter' = (upSinceIter /\ upstream' = "up")
    /\ UNCHANGED <<mgrVars, tv_client, connected, closed, tasks, req,
                   failedAttempts>>

\* -------------------------------------------------------- route handlers

\* The host serves requests once lifespan has yielded; the plugin's router
\* answers under the prefix load_plugins mounted it at.
Served ==
    /\ hostPc \in ServingPcs
    /\ \E n \in routes : cands[n].kind = "tv"
    /\ req # "awaiting"

\* GET /status (lines 375-380).
RequestStatus ==
    /\ Served
    /\ req' = StatusReport(tv_client, connected)
    /\ UNCHANGED <<mgrVars, tv_client, connected, closed, tasks, upstream,
                   failedAttempts, upSinceIter>>

\* An operational route (lines 382-587) up to the await of its upstream
\* call: 503 when not connected. A call on a closed httpx client raises at
\* once, and the request method returns its error body.
RequestOperational(route) ==
    /\ Served
    /\ IF Rejects(route, tv_client, connected)
          THEN req' = "503" /\ connected' = connected
        ELSE IF closed
          THEN /\ req' = RequestMethod(connected, "raise").body
               /\ connected' = RequestMethod(connected, "raise").connected
        ELSE req' = "awaiting" /\ connected' = connected
    /\ UNCHANGED <<mgrVars, tv_client, closed, tasks, upstream,
                   failedAttempts, upSinceIter>>

\* The upstream call of the request being handled ends, and the handler
\* returns what the request method returned.
UpstreamReplies ==
    /\ req = "awaiting"
    /\ \E r \in AttemptResults \ {"non200"} :
          /\ req' = HandlerReturn(tv_client, RequestMethod(connected, r).body)
          /\ connected' = RequestMethod(connected, r).connected
    /\ UNCHANGED <<mgrVars, tv_client, closed, tasks, upstream,
                   failedAttempts, upSinceIter>>

\* ------------------------------------------------------------------- Next

Next ==
    \/ LifespanStart
    \/ SkipModule
    \/ ImportFails
    \/ SkipNoSetup
    \/ BeginSetupPlain
    \/ FinishSetupPlain
    \/ BeginSetupTV
    \/ FinishSetupTV
    \/ LoadDone
    \/ BeginTeardown
    \/ SkipNoShutdown
    \/ BeginShutdownPlain
    \/ FinishShutdownPlain
    \/ BeginShutdownTV
    \/ FinishShutdownTV
    \/ TeardownCancel
    \/ TeardownDone
    \/ \E t \in DOMAIN tasks : MonitorIterate(t)
    \/ \E t \in DOMAIN tasks : MonitorConnectDone(t)
    \/ UpstreamChanges
    \/ RequestStatus
    \/ \E route \in OperationalRoutes : RequestOperational(route)
    \/ UpstreamReplies

Spec == Init /\ [][Next]_vars

\* ------------------------------------- the plugin's entry points, called
\* ------------------------------------- by a caller other than the manager

\* The module tradingview_mpc once imported (line 295: tv_client = None),
\* before any call of its setup or shutdown.
InitPlugin ==
    /\ dirExists = TRUE
    /\ cands = <<[kind |-> "tv", hasShutdown |-> TRUE]>>
    /\ hostPc = "caller"
    /\ idx = 1
    /\ plugins = <<>>
    /\ plugin_routers = {}
    /\ routes = {}
    /\ log = <<>>
    /\ setupCalls = [n \in DOMAIN cands |-> 0]
    /\ shutdownCalls = [n \in DOMAIN cands |-> 0]
    /\ setupResult = [n \in DOMAIN cands |-> "uncalled"]
    /\ shutdownResult = [n \in DOMAIN cands |-> "uncalled"]
    /\ cleanup_task = "absent"
    /\ tv_client = "None"
    /\ connected = FALSE
    /\ closed = FALSE
    /\ tasks = <<>>
    /\ upstream \in {"up", "down"}
    /\ req = "idle"
    /\ failedAttempts = 0
    /\ upSinceIter = FALSE

\* setup lines 589-598, up to the await of connect's GET /status.
CallSetup ==
    /\ hostPc = "caller"
    /\ setupCalls[idx] < MaxSetups
    /\ setupCalls' = [setupCalls EXCEPT ![idx] = @ + 1]
    /\ hostPc' = "in_setup"
    /\ tv_client' = "client"
    /\ connected' = FALSE
    /\ closed' = FALSE
    /\ UNCHANGED <<dirExists, cands, idx, plugins, plugin_routers, routes,
                   log, shutdownCalls, setupResult, shutdownResult,
                   cleanup_task, tasks, upstream, req,
                   failedAttempts, upSinceIter>>

\* setup lines 598-612: connect ends, the monitor task is created and the
\* router returned to the caller.
SetupReturns ==
    /\ hostPc = "in_setup"
    /\ \E r \in AttemptResults :
          LET c == connect(connected, r)
          IN  /\ connected' = c.connected
              /\ tasks' = IF c.raised THEN tasks ELSE CreateMonitor(tasks)
              /\ setupResult' = [setupResult EXCEPT ![idx] =
                                   IF c.raised THEN "raise" ELSE "router"]
    /\ hostPc' = "caller"
    /\ UNCHANGED <<dirExists, cands, idx, plugins, plugin_routers, routes,
                   log, setupCalls, shutdownCalls, shutdownResult,
                   cleanup_task, tv_client, closed, upstream, req,
                   failedAttempts, upSinceIter>>

\* shutdown lines 614-618, up to the await of aclose() in disconnect (line
\* 40); with tv_client None the call returns at once (lines 617, 620).
CallShutdown ==
    /\ hostPc = "caller"
    /\ shutdownCalls[idx] < MaxShutdowns
    /\ shutdownCalls' = [shutdownCalls EXCEPT ![idx] = @ + 1]
    /\ LET start == ShutdownStart(tv_client) IN
          IF start = "disconnect"
            THEN /\ closed' = TRUE
                 /\ hostPc' = "in_shutdown"
                 /\ UNCHANGED shutdownResult
            ELSE /\ closed' = closed
                 /\ hostPc' = "caller"
                 /\ shutdownResult' = [shutdownResult EXCEPT ![idx] =
                        IF start = "raise" THEN "raise" ELSE "ok"]
    /\ UNCHANGED <<dirExists, cands, idx, plugins, plugin_routers, routes,
                   log, setupCalls, setupResult, cleanup_task, tv_client,
                   connected, tasks, upstream, req, failedAttempts,
                   upSinceIter>>

\* disconnect lines 41-42 and shutdown lines 619-620.
ShutdownReturns ==
    /\ hostPc = "in_shutdown"
    /\ connected' = FALSE
    /\ tv_client' = "None"
    /\ shutdownResult' = [shutdownResult EXCEPT ![idx] = "ok"]
    /\ hostPc' = "caller"
    /\ UNCHANGED <<dirExists, cands, idx, plugins, plugin_routers, routes,
                   log, setupCalls, shutdownCalls, setupResult,
                   cleanup_task, closed, tasks, upstream, req,
                   failedAttempts, upSinceIter>>

NextPlugin ==
    \/ CallSetup
    \/ SetupReturns
    \/ CallShutdown
    \/ ShutdownReturns
    \/ \E t \in DOMAIN tasks : MonitorIterate(t)
    \/ \E t \in DOMAIN tasks : MonitorConnectDone(t)
    \/ UpstreamChanges

SpecPlugin == InitPlugin /\ [][NextPlugin]_vars

\* ----------------------------------------------------------- vocabulary

\* load_plugins has returned to lifespan.
LoadReturned ==
    hostPc \in {"serving", "shutting", "in_shutdown", "cleanup", "done"}

\* shutdown_plugins has returned to lifespan.
ShutdownReturned == hostPc \in {"cleanup", "done"}

Registered == {plugins[i] : i \in DOMAIN plugins}

SetupCandidates == {n \in Names : HasSetup(n)}

Raised == {n \in Names : setupResult[n] = "raise"}

\* The load failures logged for the candidates in `among`.
LoadFailures(among) ==
    {i \in DOMAIN log : log[i].ev = "load_failed" /\ log[i].name \in among}

Said(ev, n) == \E i \in DOMAIN log : log[i] = Entry(ev, n)

\* Plugin a was registered before plugin b.
Before(a, b) ==
    \E i, j \in DOMAIN plugins : i < j /\ plugins[i] = a /\ plugins[j] = b

Looping == {"start", "connecting", "sleeping"}

\* ------------------------------------------------------------------- C1

\* C1, as claimed: once load_plugins has returned, the setup of each of the
\* N candidates that expose setup has been called, exactly the N-K whose
\* setup did not raise are mounted, and K load failures are logged for them.
C1_MountsAllThatDidNotRaise ==
    LoadReturned =>
        /\ \A n \in SetupCandidates : setupCalls[n] = 1
        /\ routes = SetupCandidates \ Raised
        /\ Cardinality(LoadFailures(SetupCandidates)) = Cardinality(Raised)

\* C1, amended: once load_plugins has returned, the setup of each of the N
\* candidates that expose setup has been called, exactly the N-K whose
\* setup did not raise are registered, those of them whose setup returned
\* a router are mounted, and K load failures are logged for them.
C1_RegistersAllThatDidNotRaise ==
    LoadReturned =>
        /\ \A n \in SetupCandidates : setupCalls[n] = 1
        /\ Registered = SetupCandidates \ Raised
        /\ Len(plugins) = Cardinality(SetupCandidates \ Raised)
        /\ routes = {n \in Names : setupResult[n] = "router"}
        /\ plugin_routers = routes
        /\ Cardinality(LoadFailures(SetupCandidates)) = Cardinality(Raised)

\* A setup raised, and a later candidate's setup returned None and another
\* one's a router.
C1_Witness ==
    /\ LoadReturned
    /\ \E a, b, c \in Names :
          /\ a < b /\ a < c
          /\ setupResult[a] = "raise"
          /\ setupResult[b] = "none"
          /\ setupResult[c] = "router"

\* ------------------------------------------------------------------- C2

\* C2: once shutdown_plugins has returned, the shutdown of every registered
\* plugin that has one was called exactly once, whatever the shutdowns
\* called before it did.
C2_EveryShutdownCalledOnce ==
    ShutdownReturned =>
        \A n \in Registered : cands[n].hasShutdown => shutdownCalls[n] = 1

\* A plugin's shutdown raised and the shutdown of a plugin registered after
\* it was called all the same.
C2_Witness ==
    /\ ShutdownReturned
    /\ \E a, b \in Registered :
          /\ Before(a, b)
          /\ shutdownResult[a] = "raise"
          /\ shutdownCalls[b] = 1

\* ------------------------------------------------------------------- C3

\* C3, as claimed: once lifespan's teardown has completed, no
\* connection_monitor task is still pending.
C3_NoMonitorAfterTeardown ==
    hostPc = "done" => \A t \in DOMAIN tasks : tasks[t] \notin Looping

\* ------------------------------------------------------------------- C4

\* C4, as claimed: a connection_monitor task is looping or was cancelled;
\* it never ends by an exception or a return.
C4_MonitorEndsOnlyCancelled ==
    \A t \in DOMAIN tasks : tasks[t] \in Looping \cup {"cancelled"}

\* ------------------------------------------------------------------- C5

\* C5: whenever a connect attempt of the monitor ends with connect
\* returning False (the GET raised, or was answered with a status other
\* than 200), the client stays not connected and the monitor goes to its
\* sleep, from which its next iteration starts; however many attempts
\* failed before.
C5_FailedAttemptKeepsLooping ==
    [][\A t \in DOMAIN tasks :
          (tasks[t] = "connecting" /\ tasks'[t] # "connecting" /\ ~connected')
              => /\ tasks'[t] = "sleeping"
                 /\ failedAttempts' = Min(failedAttempts + 1, MaxFails)]_vars

\* The monitor sleeps after MaxFails failed attempts in a row.
C5_Witness ==
    /\ failedAttempts = MaxFails
    /\ tv_client = "client"
    /\ ~connected
    /\ \E t \in DOMAIN tasks : tasks[t] = "sleeping"

\* ------------------------------------------------------------------- C6

\* The host is running: lifespan has not resumed after its yield.
HostRunning == hostPc \in {"loading", "in_setup", "serving"}

\* C6: while the host is running, once a monitor iteration that began with
\* the upstream reachable is over (the monitor sleeps) and the upstream has
\* been reachable throughout, the client is connected.
C6_ConnectedWithinOneIteration ==
    (HostRunning /\ upSinceIter) =>
        \A t \in DOMAIN tasks : tasks[t] = "sleeping" => connected

\* setup could not connect, and the monitor did.
C6_Witness ==
    /\ HostRunning
    /\ upSinceIter
    /\ \E n \in Names : Said("not_connected", n)
    /\ connected
    /\ \E t \in DOMAIN tasks : tasks[t] = "sleeping"

\* ------------------------------------------------------------------- C7

\* C7: a request to an operational route that arrives while tv_client is
\* None or not connected is answered with 503, without an upstream call.
C7_NotConnectedAnswers503 ==
    [][(/\ \E route \in OperationalRoutes : RequestOperational(route)
        /\ (tv_client = "None" \/ ~connected))
          => req' = "503"]_vars

\* A 503 from a plugin that has a client which is not connected.
C7_Witness ==
    /\ req = "503"
    /\ tv_client = "client"
    /\ ~connected
    /\ hostPc = "serving"

\* ------------------------------------------------------------------- C8

\* C8, as claimed: when a request method of a connected client sees its
\* upstream call fail, the client is not connected afterwards.
C8_UpstreamFailureDisconnects ==
    [][(req = "awaiting" /\ req' = "error" /\ connected /\ hostPc = "serving")
          => ~connected']_vars

\* ------------------------------------------------------------------- C9

\* C9, as claimed: setup and shutdown of a candidate are each called at
\* most once, shutdown only after setup, and once lifespan's teardown has
\* completed the shutdown of a plugin whose setup raised has been called.
C9_ShutdownEvenAfterFailedSetup ==
    /\ \A n \in Names :
          /\ setupCalls[n] <= 1
          /\ shutdownCalls[n] <= 1
          /\ shutdownCalls[n] = 1 => setupResult[n] # "uncalled"
    /\ hostPc = "done" =>
          \A n \in Raised : cands[n].hasShutdown => shutdownCalls[n] = 1

\* ------------------------------------------------------------------ C10

\* C10, as claimed: once shutdown_plugins has returned, plugins and
\* plugin_routers are empty.
C10_RegistryClearedAfterShutdown ==
    ShutdownReturned => (plugins = <<>> /\ plugin_routers = {})

\* ------------------------------------------------------------------ C12

\* A call of the plugin's shutdown returns to its caller in this step.
ShutdownCallEnds ==
    ShutdownReturns \/ (CallShutdown /\ hostPc' = "caller")

\* C12: every call of the plugin's shutdown, whether setup was never
\* called, or a shutdown has completed before, or neither, returns without
\* raising and leaves the plugin with tv_client None and reporting itself
\* disconnected; a call that found a client leaves that client's connected
\* field False.
C12_ShutdownIdempotent ==
    [][ShutdownCallEnds =>
          /\ shutdownResult'[idx] = "ok"
          /\ tv_client' = "None"
          /\ StatusReport(tv_client', connected') = "disconnected"
          /\ tv_client = "client" => ~connected']_vars

\* Two calls of shutdown have returned, one of them after setup, closing
\* the client: the other one came before setup was ever called, or after
\* that shutdown had completed.
C12_Witness ==
    /\ hostPc = "caller"
    /\ cands[idx].kind = "tv"
    /\ setupCalls[idx] = 1
    /\ shutdownCalls[idx] = 2
    /\ shutdownResult[idx] = "ok"
    /\ closed
    /\ tv_client = "None"

\* ------------------------------------------------------------------ C13

\* The candidates that are tradingview_mpc.
TV == {n \in Names : cands[n].kind = "tv"}

\* C13: for tradingview_mpc, loaded by the manager: its routes are mounted
\* only with its setup over; a monitor task takes its first iteration only
\* with the routes mounted and before shutdown is called; and shutdown is
\* called only with the routes mounted and the first iteration taken.
C13_SetupMountMonitorShutdown ==
    [][\A n \in TV :
          /\ (n \notin routes /\ n \in routes')
                => /\ setupCalls[n] = 1
                   /\ setupResult'[n] = "router"
                   /\ shutdownCalls'[n] = 0
          /\ \A t \in DOMAIN tasks :
                (tasks[t] = "start" /\ tasks'[t] # "start")
                  => n \in routes /\ shutdownCalls[n] = 0
          /\ shutdownCalls'[n] # shutdownCalls[n]
                => /\ n \in routes
                   /\ tasks # <<>>
                   /\ \A t \in DOMAIN tasks : tasks[t] # "start"]_vars

\* All four events have happened to tradingview_mpc.
C13_Witness ==
    \E n \in TV :
        /\ setupResult[n] = "router"
        /\ n \in routes
        /\ tasks # <<>>
        /\ \A t \in DOMAIN tasks : tasks[t] # "start"
        /\ shutdownCalls[n] = 1

\* ------------------------------------------------------------------ C14

\* A request to the plugin's router is handled in this step.
RequestHandled ==
    \/ RequestStatus
    \/ \E route \in OperationalRoutes : RequestOperational(route)

\* C14: whenever a request to a mounted route is handled, load_plugins has
\* returned: the setup of every candidate that has one has been called and
\* has returned or raised, and each raise is logged as a load failure.
C14_SetupsResolvedBeforeServing ==
    [][RequestHandled =>
          /\ LoadReturned
          /\ \A n \in SetupCandidates :
                /\ setupCalls[n] = 1
                /\ setupResult[n] # "uncalled"
                /\ setupResult[n] = "raise" => Said("load_failed", n)]_vars

\* A request was answered by tradingview_mpc, loaded before a plugin whose
\* setup raised.
C14_Witness ==
    /\ req \notin {"idle", "awaiting"}
    /\ hostPc = "serving"
    /\ \E n \in TV : \E k \in Raised : n < k /\ Said("load_failed", k)

\* ------------------------------------------------------------------ C15

\* The manager logged a plugin's failure in this step.
FailureLogged ==
    /\ Len(log') = Len(log) + 1
    /\ log'[Len(log')].ev \in {"load_failed", "shutdown_error"}

\* C15: lifespan never ends by an exception, and a step in which an
\* import, a setup or a shutdown fails leaves the manager in its loop, at
\* the next plugin.
C15_FailuresNeverPropagate ==
    [][/\ hostPc' # "failed"
       /\ (FailureLogged \/ \E n \in Names : n \notin Raised /\ n \in Raised')
             => /\ hostPc' \in {"loading", "shutting"}
                /\ idx' = idx + 1]_vars

\* Teardown has completed after an import failed, a setup raised and a
\* shutdown raised.
C15_Witness ==
    /\ hostPc = "done"
    /\ cleanup_task = "cancelled"
    /\ \E a, b, c \in Names :
          /\ cands[a].kind = "importfail" /\ Said("load_failed", a)
          /\ setupResult[b] = "raise" /\ Said("load_failed", b)
          /\ shutdownResult[c] = "raise" /\ Said("shutdown_error", c)

\* ------------------------------------------------------------------ C16

NoSetup == {n \in Names : cands[n].kind = "nosetup"}

\* The log entries with event ev.
Entries(ev) == {i \in DOMAIN log : log[i].ev = ev}

\* The directory holds exactly A, whose setup returned a router, B, whose
\* setup raised, and C, which has no setup, in any order.
ExampleABC(a, b, c) ==
    /\ Names = {a, b, c}
    /\ Cardinality({a, b, c}) = 3
    /\ setupResult[a] = "router"
    /\ setupResult[b] = "raise"
    /\ c \in NoSetup

\* C16: a package without setup is at no time registered or mounted, has
\* no load failure logged, and neither a setup nor a shutdown of it is
\* called; and once load_plugins has returned for the directory of A, B
\* and C, the registry is exactly {A}, the only prefix mounted is A's, and
\* the log has one success and one failure.
C16_NoSetupSkipped ==
    /\ \A n \in NoSetup :
          /\ n \notin Registered
          /\ n \notin routes \cup plugin_routers
          /\ LoadFailures({n}) = {}
          /\ setupCalls[n] = 0
          /\ shutdownCalls[n] = 0
    /\ \A a, b, c \in Names :
          (LoadReturned /\ ExampleABC(a, b, c))
            => /\ plugins = <<a>>
               /\ routes = {a}
               /\ plugin_routers = {a}
               /\ Cardinality(Entries("loaded")) = 1
               /\ Cardinality(Entries("load_failed")) = 1

\* Teardown has completed for the directory of A, B and C, where C has a
\* shutdown function.
C16_Witness ==
    /\ hostPc = "done"
    /\ \E a, b, c \in Names :
          /\ ExampleABC(a, b, c)
          /\ cands[c].hasShutdown
          /\ plugins = <<a>>

\* ------------------------------------------------------------------ C17

\* load_plugins found no plugins directory.
RootWasMissing == Said("created_dir", 0)

C18_UpstreamFailureAnswers503 ==
    [][(/\ UpstreamReplies
        /\ hostPc = "serving"
        /\ tv_client = "client"
        /\ connected
        /\ req' # "result")
          => req' = "503"]_vars

\* ------------------------------------------------------------------ C19

\* The monitor tasks that have not ended.
Alive == {t \in DOMAIN tasks : tasks[t] \in Looping}

\* C19: under the manager, at most one connection_monitor task was ever
\* created, and so at most one is alive; none before the plugin's setup
\* has returned.
C19_AtMostOneMonitor ==
    /\ Cardinality(Alive) <= 1
    /\ Len(tasks) <= 1
    /\ tasks # <<>> => \E n \in TV : setupResult[n] = "router"

\* The one monitor task is alive after load, monitor iterations with a
\* connect attempt, and shutdown.
C19_Witness ==
    /\ hostPc = "done"
    /\ Cardinality(Alive) = 1
    /\ failedAttempts > 0
    /\ \E n \in TV : shutdownCalls[n] = 1

\* ------------------------------------------------------------------ C20

\* The candidates whose setup has been called and has not ended.
InSetup == {n \in Names : setupCalls[n] > 0 /\ setupResult[n] = "uncalled"}

\* C20: at most one setup is in progress, and it is the one the loop of
\* load_plugins is at; and a candidate's setup has been called only if the
\* setup of every candidate before it has returned or raised.
C20_SetupsSequential ==
    /\ Cardinality(InSetup) <= 1
    /\ InSetup # {} => (hostPc = "in_setup" /\ InSetup = {idx})
    /\ \A n \in SetupCandidates :
          setupCalls[n] > 0 =>
              \A m \in SetupCandidates : m < n => setupResult[m] # "uncalled"

\* The setup of the third candidate is in progress after the first one's
\* raised and the second one's returned.
C20_Witness ==
    \E a, b, c \in SetupCandidates :
        /\ a < b /\ b < c
        /\ setupResult[a] = "raise"
        /\ setupResult[b] \in {"router", "none"}
        /\ InSetup = {c}

\* ------------------------------------------------------------------ C21

\* C21, as claimed: an iteration of connection_monitor attempts a connect
\* when the plugin is not connected and then sleeps, and with the plugin
\* connected it goes to its sleep with no attempt and nothing changed.
C21_AttemptIffNotConnected ==
    [][\A t \in DOMAIN tasks :
          MonitorIterate(t) =>
              /\ tasks'[t] \in {"connecting", "sleeping"}
              /\ StatusReport(tv_client, connected) = "connected"
                    => /\ tasks'[t] = "sleeping"
                       /\ connected'
                       /\ failedAttempts' = failedAttempts
              /\ (StatusReport(tv_client, connected) = "disconnected"
                     /\ ~closed)
                    => tasks'[t] = "connecting"]_vars

\* ------------------------------------------------------------------ C22

\* The candidates whose setup returned None.
ReturnedNone == {n \in Names : setupResult[n] = "none"}

\* C22: every name with a mounted router is registered; a plugin whose
\* setup returned None is registered and has nothing mounted; and once
\* shutdown_plugins has returned, its shutdown, if it has one, was called.
C22_MountedAreRegistered ==
    /\ routes \subseteq Registered
    /\ plugin_routers \subseteq Registered
    /\ \A n \in ReturnedNone :
          /\ n \in Registered
          /\ n \notin routes \cup plugin_routers
          /\ (ShutdownReturned /\ cands[n].hasShutdown)
                => shutdownCalls[n] = 1

\* Teardown has completed with a plugin mounted and another one, whose
\* setup returned None, shut down.
C22_Witness ==
    /\ hostPc = "done"
    /\ routes # {}
    /\ \E n \in ReturnedNone : shutdownCalls[n] = 1

\* ------------------------------------------------------------------ C23

\* The plugin's shutdown, called by the manager, has returned.
PluginShutDown == \E n \in TV : shutdownResult[n] = "ok"

\* C23: from the return of the plugin's shutdown on, tv_client stays None,
\* every request to an operational route is answered with 503 and every
\* request to /status with disconnected, whatever a monitor connect that
\* was in flight does to the client object afterwards.
C23_UnavailableAfterShutdown ==
    [][PluginShutDown =>
          /\ tv_client = "None" /\ tv_client' = "None"
          /\ \A route \in OperationalRoutes :
                RequestOperational(route) => req' = "503"
          /\ RequestStatus => req' = "disconnected"]_vars

\* A 503 after shutdown, with the client object that shutdown dropped
\* marked connected by the monitor's connect.
C23_Witness ==
    /\ PluginShutDown
    /\ tv_client = "None"
    /\ connected
    /\ req = "503"

\* ------------------------------------------------------------------ C24

\* The plugin's shutdown has closed the client, and may have returned.
ShutdownUnderWay == closed \/ tv_client = "None"

\* C24: a request that is awaiting its upstream call while the plugin's
\* shutdown is under way or over ends with a response, the upstream result
\* or an error body, and with no exception.
C24_InFlightRequestAnswered ==
    [][(UpstreamReplies /\ ShutdownUnderWay)
          => req' \in {"result", "error"}]_vars

\* A request is awaiting its upstream call and the plugin's shutdown has
\* returned meanwhile.
C24_Witness ==
    /\ req = "awaiting"
    /\ closed
    /\ tv_client = "None"
    /\ PluginShutDown

====
